---------------------------- MODULE Spec2Model ----------------------------
(***************************************************************************)
(* A model of MovieRecommender (src/src/recommender.py): the item and      *)
(* rating tables as loaded by __init__, and the four operations            *)
(* content_recommend, collaborative_recommend, hybrid_recommend and        *)
(* get_popular_movies.                                                     *)
(*                                                                         *)
(* A DataFrame is a record [columns, rows]: the set of its column names    *)
(* and the sequence of its rows.  A row is [movieId, pred_rating,          *)
(* similarity_score]; title and genres are functions of movieId (the item  *)
(* ids of the store are unique) and are carried only as column names.      *)
(* Scores are exact rationals <<numerator, denominator>> in lowest terms;  *)
(* NaN is the pair with denominator 0.                                     *)
(***************************************************************************)
EXTENDS Integers, Sequences, FiniteSets

(***************************************************************************)
(* Bounds of the model.                                                    *)
(***************************************************************************)
MaxMovies == 3      \* rows of the raw movies table
MaxBlank == 1       \* raw rows whose title and genres are both empty
MaxEst == 2         \* an SVD estimate is in 3..(2 + MaxEst)
CrowdSize == 12     \* other users who rated a widely rated movie
CrowdRating == 4    \* the rating each of them gave
UserRating == 3     \* the rating user UserId gave
UserId == 1         \* the user the calls are made for
MaxK == 2           \* k and top_n are in 0..MaxK
MaxSeeds == 2       \* length of user_movie_ids
AlphaDen == 2       \* alpha is i / AlphaDen, i in 0..AlphaDen

(***************************************************************************)
(* Constants of the program.                                               *)
(***************************************************************************)
MinRatingCount == 10    \* rating_count > 10
CandidateCap == 1000    \* list(unrated_movies)[:1000]
OverFetch == 2          \* top_n*2
TfidfUnit == 5          \* a TF-IDF weight w stands for w / TfidfUnit
UlpDen == 4096          \* one unit in the last place stands for 1 / UlpDen
MaxSteps == 8           \* the roundings of the scaler move a value by at most MaxSteps steps

CrowdUsers == (100 + 1)..(100 + CrowdSize)
\* the slots of the hash table of a small CPython set (PySet_MINSIZE): an
\* integer id is kept in the slot id mod SetTableSize
SetTableSize == 8
\* the id of row p of the raw movies table: the last row of a full table has
\* an id that wraps around the hash table
MovieIdAt(p) == IF p = MaxMovies THEN SetTableSize ELSE p
MovieIds == {MovieIdAt(p) : p \in 1..MaxMovies}
KValues == 0..MaxK
AlphaValues == {<<i, AlphaDen>> : i \in 0..AlphaDen}
EstValues == 3..(2 + MaxEst)
\* the rows TfidfVectorizer gives (norm='l2'): unit vectors of non-negative
\* weights, and the zero vector for a text of stop words only
Vectors == {<<0, 0>>, <<TfidfUnit, 0>>, <<4, 3>>}

VARIABLES
    movies_df,      \* self.movies_df: rows [index, movieId], in table order
    tfidf_matrix,   \* self.tfidf_matrix: one vector per row of movies_df
    ratings_df,     \* self.ratings_df: set of rows [userId, movieId, rating]
    svd_est,        \* self.svd_model.predict(UserId, m).est, m a movie id
    svd_raises,     \* the movie ids m for which that call raises
    models,         \* the models load_models has loaded
    phase,          \* how far MovieRecommender() has come
    op,             \* the last operation called
    args,           \* its arguments
    result,         \* the DataFrame it returned, with the path taken
    stack           \* the calls in progress, the innermost last

store == <<movies_df, tfidf_matrix, ratings_df, svd_est, svd_raises>>

vars == <<store, models, phase, op, args, result, stack>>

(***************************************************************************)
(* Rational arithmetic.                                                    *)
(***************************************************************************)
Abs(x) == IF x < 0 THEN 0 - x ELSE x

RECURSIVE Gcd(_, _)
Gcd(a, b) == IF b = 0 THEN a ELSE Gcd(b, a % b)

Rat(n, d) ==
    LET g == Gcd(Abs(n), Abs(d))
        s == IF d < 0 THEN 0 - 1 ELSE 1
    IN  <<(s * n) \div g, (s * d) \div g>>

NaN == <<0, 0>>
IsNaN(x) == x[2] = 0
RInt(n) == <<n, 1>>
RAdd(x, y) == Rat(x[1] * y[2] + y[1] * x[2], x[2] * y[2])
RSub(x, y) == Rat(x[1] * y[2] - y[1] * x[2], x[2] * y[2])
RMul(x, y) == Rat(x[1] * y[1], x[2] * y[2])
RDiv(x, y) == Rat(x[1] * y[2], x[2] * y[1])
RLt(x, y) == x[1] * y[2] < y[1] * x[2]
RLe(x, y) == x[1] * y[2] <= y[1] * x[2]

(***************************************************************************)
(* Python and pandas helpers.                                              *)
(***************************************************************************)
Min2(a, b) == IF a < b THEN a ELSE b
Max2(a, b) == IF a > b THEN a ELSE b

\* s[start:stop] for start >= 0 (0-based, stop exclusive, a negative stop
\* counts from the end)
PySlice(s, start, stop) ==
    LET n == Len(s)
        e == IF stop < 0 THEN Max2(n + stop, 0) ELSE Min2(stop, n)
    IN  IF start >= e THEN <<>> ELSE SubSeq(s, start + 1, e)

\* DataFrame.head(n): the first n rows, all but the last -n for n < 0
HeadRows(s, n) == PySlice(s, 0, n)

Range(s) == {s[i] : i \in 1..Len(s)}

RECURSIVE SelectRows(_, _)
SelectRows(s, keep) ==
    IF s = <<>> THEN <<>>
    ELSE IF Head(s).movieId \in keep
         THEN <<Head(s)>> \o SelectRows(Tail(s), keep)
         ELSE SelectRows(Tail(s), keep)

\* the ids of a set in ascending order: the order in which groupby lists its
\* groups
RECURSIVE Ascending(_)
Ascending(S) ==
    IF S = {} THEN <<>>
    ELSE LET m == CHOOSE x \in S : \A y \in S : x <= y
         IN  <<m>> \o Ascending(S \ {m})

\* list(S) for a set S of at most four integer ids in different slots: CPython
\* iterates over the hash table slot by slot
RECURSIVE SetOrder(_)
SetOrder(S) ==
    IF S = {} THEN <<>>
    ELSE LET m == CHOOSE x \in S :
                      \A y \in S : x % SetTableSize <= y % SetTableSize
         IN  <<m>> \o SetOrder(S \ {m})

RECURSIVE SumOver(_, _)
SumOver(f, S) ==
    IF S = {} THEN 0
    ELSE LET x == CHOOSE y \in S : TRUE IN f[x] + SumOver(f, S \ {x})

Row(id, pred, sim) == [movieId |-> id, pred_rating |-> pred, similarity_score |-> sim]

Frame(cols, rows) == [columns |-> cols, rows |-> rows]

PopularColumns == {"movieId", "title", "genres", "pred_rating"}
ContentColumns == PopularColumns \cup {"similarity_score"}

Ids(df) == [i \in 1..Len(df.rows) |-> df.rows[i].movieId]

(***************************************************************************)
(* The store.                                                              *)
(***************************************************************************)
StoreIds == {movies_df[i].movieId : i \in 1..Len(movies_df)}

RatedBy(u) == {r.movieId : r \in {x \in ratings_df : x.userId = u}}

\* a stable sort of s, before[i, j] telling that row i sorts before row j:
\* row i goes behind every row that is before it and every earlier row that
\* ties with it
SortStable(s, before) ==
    LET n == Len(s)
        pos(i) == 1 + Cardinality({j \in 1..n :
                        before[j, i] \/ (~before[i, j] /\ j < i)})
    IN  [p \in 1..n |-> s[CHOOSE i \in 1..n : pos(i) = p]]

\* every order an unstable sort may leave s in: rows that tie under before
\* come out in an order the sort algorithm (numpy's default quicksort:
\* introsort or a SIMD network, by build and CPU) decides
SortOrders(s, before) ==
    LET RECURSIVE Build(_, _)
        Build(done, left) ==
            IF left = {} THEN {done}
            ELSE UNION {Build(Append(done, s[i]), left \ {i}) :
                           i \in {j \in left : \A l \in left : ~before[l, j]}}
    IN  Build(<<>>, 1..Len(s))

Reverse(s) == [i \in 1..Len(s) |-> s[Len(s) + 1 - i]]

(***************************************************************************)
(* get_popular_movies.  self.ratings_df is never None once __init__ has    *)
(* returned (load_ratings returns a DataFrame or raises), and nothing in   *)
(* the try block raises on a loaded table, so lines 249-260 are not        *)
(* reached: an empty table goes through the groupby like any other.        *)
(***************************************************************************)
RatingCount(m) == Cardinality({r \in ratings_df : r.movieId = m})

RatingSum(m) ==
    LET rs == {r \in ratings_df : r.movieId = m}
    IN  SumOver([r \in rs |-> r.rating], rs)

\* movie_stats: one row per movieId of ratings_df, in ascending movieId
MovieStats ==
    LET ids == Ascending({r.movieId : r \in ratings_df})
    IN  [i \in 1..Len(ids) |->
            [movieId |-> ids[i],
             rating_count |-> RatingCount(ids[i]),
             avg_rating |-> Rat(RatingSum(ids[i]), RatingCount(ids[i]))]]

\* sort_values(['avg_rating', 'rating_count'], ascending=False)
PopularBefore(a, b) ==
    \/ RLt(b.avg_rating, a.avg_rating)
    \/ a.avg_rating = b.avg_rating /\ a.rating_count > b.rating_count

\* PopularMovies without the rating_count filter
PopularMoviesAll ==
    SortStable(MovieStats,
               [i, j \in 1..Len(MovieStats) |->
                   PopularBefore(MovieStats[i], MovieStats[j])])

PopularMovies ==
    LET popular_movies == SelectSeq(MovieStats,
                                    LAMBDA r : r.rating_count > MinRatingCount)
    IN  SortStable(popular_movies,
                   [i, j \in 1..Len(popular_movies) |->
                       PopularBefore(popular_movies[i], popular_movies[j])])

\* GetPopularMovies without the merge with movies_df
GetPopularMoviesUnmerged(top_n) ==
    LET rows == [i \in 1..Len(PopularMovies) |->
                    Row(PopularMovies[i].movieId, PopularMovies[i].avg_rating, NaN)]
    IN  Frame(PopularColumns, HeadRows(rows, top_n))

GetPopularMovies(top_n) ==
    LET merged == SelectRows(PopularMovies, StoreIds)
        rows == [i \in 1..Len(merged) |->
                    Row(merged[i].movieId, merged[i].avg_rating, NaN)]
    IN  Frame(PopularColumns, HeadRows(rows, top_n))

WithPath(df, p) == [columns |-> df.columns, rows |-> df.rows, path |-> p]

(***************************************************************************)
(* content_recommend.  movies_df keeps the index labels of the raw table   *)
(* (line 68 filters without resetting the index), while tfidf_matrix has   *)
(* one row per remaining movie: line 83 reads a label and line 90 uses it  *)
(* as a position.                                                          *)
(***************************************************************************)
Dot(v, w) == SumOver([t \in DOMAIN v |-> v[t] * w[t]], DOMAIN v)

\* linear_kernel(self.tfidf_matrix[movie_idx], self.tfidf_matrix).flatten()
CosineSim(movie_idx) ==
    [j \in 1..Len(tfidf_matrix) |->
        Rat(Dot(tfidf_matrix[movie_idx + 1], tfidf_matrix[j]), TfidfUnit * TfidfUnit)]

\* 3.5 + (cosine_sim[idx] * 1.5)
ContentScore(sim) == RAdd(Rat(7, 2), RMul(sim, Rat(3, 2)))

\* the results of cosine_sim.argsort(): positions (from 1) by ascending
\* similarity, equal similarities in any order
ArgSorts(cosine_sim) ==
    SortOrders([i \in 1..Len(cosine_sim) |-> i],
               [i, j \in 1..Len(cosine_sim) |-> RLt(cosine_sim[i], cosine_sim[j])])

\* lines 93-106 for one result of argsort
ContentRows(cosine_sim, order, k) ==
    LET similar_indices == PySlice(Reverse(order), 1, k + 1)
        rows == [i \in 1..Len(similar_indices) |->
                    Row(movies_df[similar_indices[i]].movieId,
                        ContentScore(cosine_sim[similar_indices[i]]),
                        cosine_sim[similar_indices[i]])]
    IN  IF rows = <<>> THEN Frame({}, <<>>) ELSE Frame(ContentColumns, rows)

\* every DataFrame content_recommend(movie_id, k) may return
ContentRecommend(movie_id, k) ==
    LET found == {i \in 1..Len(movies_df) : movies_df[i].movieId = movie_id}
    IN  IF found = {}
        THEN {WithPath(GetPopularMovies(k), "unknown")}
        ELSE LET first == CHOOSE i \in found : \A j \in found : i <= j
                 movie_idx == movies_df[first].index
             IN  IF movie_idx >= Len(tfidf_matrix)
                 THEN \* IndexError at line 90, caught at line 108
                      {WithPath(GetPopularMovies(k), "except")}
                 ELSE {WithPath(ContentRows(CosineSim(movie_idx), order, k), "similar") :
                          order \in ArgSorts(CosineSim(movie_idx))}

(***************************************************************************)
(* collaborative_recommend.                                                *)
(***************************************************************************)
\* self.svd_model.predict(user_id, movie_id).est
Predict(user_id, movie_id) == RInt(svd_est[movie_id])

CollabColumns == {"movieId", "pred_rating", "title", "genres"}

\* lines 115-135: top_predictions
TopPredictions(user_id, k) ==
    LET rated_movies == RatedBy(user_id)
        unrated_movies == StoreIds \ rated_movies
        \* a movie whose prediction raises is skipped (lines 130-131)
        cands == SelectSeq(PySlice(SetOrder(unrated_movies), 0, CandidateCap),
                           LAMBDA m : m \notin svd_raises)
        predictions == [i \in 1..Len(cands) |->
                           Row(cands[i], Predict(user_id, cands[i]), NaN)]
        \* list.sort(reverse=True) is stable
        sorted == SortStable(predictions,
                             [i, j \in 1..Len(predictions) |->
                                 RLt(predictions[j].pred_rating,
                                     predictions[i].pred_rating)])
    IN  PySlice(sorted, 0, k)

\* CollaborativeRecommend with the empty top_predictions returned as an
\* empty frame
CollaborativeRecommendEmpty(user_id, k) ==
    LET top_predictions == TopPredictions(user_id, k)
    IN  IF top_predictions = <<>>
        THEN WithPath(Frame({}, <<>>), "predicted")
        ELSE WithPath(Frame(CollabColumns, top_predictions), "predicted")

CollaborativeRecommend(user_id, k) ==
    LET top_predictions == TopPredictions(user_id, k)
    IN  IF top_predictions = <<>>
        THEN \* pd.DataFrame([]) has no movieId column: the merge at line
             \* 139 raises KeyError, caught at line 143
             WithPath(GetPopularMovies(k), "except")
        ELSE WithPath(Frame(CollabColumns, top_predictions), "predicted")

(***************************************************************************)
(* hybrid_recommend.                                                       *)
(***************************************************************************)
\* one result of content_recommend(movie_id, top_n*2) per seed, in every
\* combination
RECURSIVE ContentRecs(_, _)
ContentRecs(user_movie_ids, k) ==
    IF user_movie_ids = <<>> THEN {<<>>}
    ELSE {<<c>> \o rest : c \in ContentRecommend(Head(user_movie_ids), k),
                          rest \in ContentRecs(Tail(user_movie_ids), k)}

\* pd.concat(content_recs, ignore_index=True)
RECURSIVE Concat(_)
Concat(dfs) ==
    IF dfs = <<>> THEN Frame({}, <<>>)
    ELSE LET rest == Concat(Tail(dfs))
         IN  Frame(Head(dfs).columns \cup rest.columns, Head(dfs).rows \o rest.rows)

RECURSIVE RSum(_)
RSum(s) == IF s = <<>> THEN RInt(0) ELSE RAdd(Head(s), RSum(Tail(s)))

\* Mean as the 'first' aggregation of the title and genres columns
MeanAsFirst(s) == IF s = <<>> THEN NaN ELSE s[1]

\* the 'mean' aggregation: NaN is skipped, and the mean of nothing is NaN
Mean(s) ==
    LET present == SelectSeq(s, LAMBDA x : ~IsNaN(x))
    IN  IF present = <<>> THEN NaN ELSE RDiv(RSum(present), RInt(Len(present)))

PredColumn(rows) == [i \in 1..Len(rows) |-> rows[i].pred_rating]

SimColumn(rows) == [i \in 1..Len(rows) |-> rows[i].similarity_score]

\* GroupByMovie without the aggregation: the rows sorted by movieId
GroupByMovieKeepAll(rows) ==
    SortStable(rows, [i, j \in 1..Len(rows) |-> rows[i].movieId < rows[j].movieId])

\* groupby('movieId').agg(...).reset_index(): one row per movieId, ascending
GroupByMovie(rows) ==
    LET idset == {rows[i].movieId : i \in 1..Len(rows)}
        ids == Ascending(idset)
        group == [m \in idset |-> SelectSeq(rows, LAMBDA r : r.movieId = m)]
    IN  [i \in 1..Len(ids) |->
            Row(ids[i], Mean(PredColumn(group[ids[i]])), Mean(SimColumn(group[ids[i]])))]

\* one unit in the last place of the double 1.0, as a rational: it is below
\* every difference between two scores of the model that are not equal
Ulp == Rat(1, UlpDen)

IsPowerOfTwo(n) == \E e \in 0..30 : n = 2^e

\* x * scale_ + min_ is computed without rounding for a column whose ends are
\* dyadic and whose range is a power of two: scale_ = 1 / (hi - lo), the
\* products by it and the sum are exact
ScaledExactly(lo, hi) ==
    /\ IsPowerOfTwo(lo[2])
    /\ IsPowerOfTwo(hi[2])
    /\ IsPowerOfTwo(RSub(hi, lo)[1])
    /\ IsPowerOfTwo(RSub(hi, lo)[2])

\* the powers of two between 2^-12 and 2^12
PowersOfTwo == {<<2^e, 1>> : e \in 0..12} \cup {<<1, 2^e>> : e \in 1..12}

\* the largest power of two below x, for 2^-12 < x <= 2^13: x lies in its
\* binade, or is the power of two that ends it
PowerBelow(x) ==
    IF \E p \in PowersOfTwo : RLt(p, x) /\ RLe(x, RMul(RInt(2), p))
    THEN CHOOSE p \in PowersOfTwo : RLt(p, x) /\ RLe(x, RMul(RInt(2), p))
    ELSE IF RLe(x, RInt(1)) THEN <<1, 2^12>> ELSE <<2^12, 1>>

\* the step of the results of x * scale_ + min_ around the quotient q: the
\* two products are doubles of the binade of lo * scale_ = lo / (hi - lo),
\* Ulp times its power of two apart, and their sum is rounded to a double
\* next to q
ScaledStep(lo, hi, q) ==
    LET around == PowerBelow(q)
        products == IF lo[1] = 0 THEN around ELSE PowerBelow(RDiv(lo, RSub(hi, lo)))
    IN  RMul(Ulp, IF RLt(around, products) THEN products ELSE around)

\* x * scale_ + min_ in IEEE doubles, with scale_ = 1 / (hi - lo) and
\* min_ = 0 - lo * scale_, for the doubles nearest to lo, hi and x:
\* <<lo, hi, x, k>> says that in a column from lo to hi the value x is scaled
\* to (x - lo) / (hi - lo) + k * 2^-52
ScaledRounding ==
    {<<<<7, 2>>, <<47, 12>>, <<47, 12>>, 0>>,
     <<<<7, 2>>, <<51, 13>>, <<51, 13>>, 0>>,
     <<<<7, 2>>, <<41, 10>>, <<41, 10>>, 0>>,
     <<<<7, 2>>, <<17, 4>>, <<17, 4>>, 0>>,
     <<<<7, 2>>, <<47, 10>>, <<47, 10>>, 0>>,
     <<<<7, 2>>, <<5, 1>>, <<5, 1>>, 0>>,
     <<<<163, 44>>, <<47, 12>>, <<47, 12>>, 0>>,
     <<<<163, 44>>, <<51, 13>>, <<51, 13>>, 0>>,
     <<<<163, 44>>, <<4, 1>>, <<4, 1>>, 0>>,
     <<<<89, 24>>, <<43, 11>>, <<43, 11>>, 0>>,
     <<<<89, 24>>, <<51, 13>>, <<51, 13>>, 0>>,
     <<<<89, 24>>, <<4, 1>>, <<4, 1>>, 0>>,
     <<<<193, 52>>, <<43, 11>>, <<43, 11>>, 0>>,
     <<<<193, 52>>, <<47, 12>>, <<47, 12>>, 0>>,
     <<<<193, 52>>, <<51, 13>>, <<51, 13>>, 0>>,
     <<<<193, 52>>, <<4, 1>>, <<4, 1>>, 0>>,
     <<<<15, 4>>, <<43, 11>>, <<43, 11>>, 0>>,
     <<<<15, 4>>, <<47, 12>>, <<47, 12>>, 0>>,
     <<<<15, 4>>, <<51, 13>>, <<51, 13>>, 0>>,
     <<<<43, 11>>, <<47, 12>>, <<47, 12>>, 0>>,
     <<<<43, 11>>, <<51, 13>>, <<51, 13>>, 0>>,
     <<<<43, 11>>, <<4, 1>>, <<4, 1>>, 0>>,
     <<<<43, 11>>, <<517, 120>>, <<517, 120>>, 0>>,
     <<<<43, 11>>, <<1121, 260>>, <<1121, 260>>, 0>>,
     <<<<43, 11>>, <<87, 20>>, <<87, 20>>, 0>>,
     <<<<43, 11>>, <<107, 24>>, <<107, 24>>, 4>>,
     <<<<43, 11>>, <<58, 13>>, <<58, 13>>, 4>>,
     <<<<43, 11>>, <<9, 2>>, <<9, 2>>, 0>>,
     <<<<47, 12>>, <<51, 13>>, <<51, 13>>, 0>>,
     <<<<47, 12>>, <<4, 1>>, <<4, 1>>, 0>>,
     <<<<47, 12>>, <<947, 220>>, <<947, 220>>, 0>>,
     <<<<47, 12>>, <<49, 11>>, <<49, 11>>, 0>>,
     <<<<47, 12>>, <<58, 13>>, <<58, 13>>, 0>>,
     <<<<47, 12>>, <<9, 2>>, <<9, 2>>, 0>>,
     <<<<47, 12>>, <<47, 10>>, <<47, 10>>, 0>>,
     <<<<47, 12>>, <<5, 1>>, <<5, 1>>, 2>>,
     <<<<51, 13>>, <<4, 1>>, <<4, 1>>, 0>>,
     <<<<51, 13>>, <<517, 120>>, <<517, 120>>, 0>>,
     <<<<51, 13>>, <<1121, 260>>, <<1121, 260>>, 0>>,
     <<<<51, 13>>, <<87, 20>>, <<87, 20>>, 0>>,
     <<<<51, 13>>, <<49, 11>>, <<49, 11>>, 4>>,
     <<<<51, 13>>, <<107, 24>>, <<107, 24>>, 0>>,
     <<<<51, 13>>, <<58, 13>>, <<58, 13>>, 0>>,
     <<<<51, 13>>, <<9, 2>>, <<9, 2>>, 0>>,
     <<<<51, 13>>, <<5, 1>>, <<5, 1>>, 2>>,
     <<<<4, 1>>, <<947, 220>>, <<947, 220>>, 0>>,
     <<<<4, 1>>, <<517, 120>>, <<517, 120>>, 0>>,
     <<<<4, 1>>, <<1121, 260>>, <<1121, 260>>, 0>>,
     <<<<4, 1>>, <<87, 20>>, <<87, 20>>, 0>>,
     <<<<4, 1>>, <<49, 11>>, <<49, 11>>, 0>>,
     <<<<4, 1>>, <<107, 24>>, <<107, 24>>, 0>>,
     <<<<4, 1>>, <<58, 13>>, <<58, 13>>, 0>>,
     <<<<4, 1>>, <<47, 10>>, <<47, 10>>, 0>>,
     <<<<47, 10>>, <<97, 20>>, <<97, 20>>, -16>>,
     <<<<47, 10>>, <<5, 1>>, <<5, 1>>, -8>>}

\* what the scaler gives the value x of a column from lo to hi, x above lo:
\* the quotient q where the arithmetic is exact (dyadic values, a range that
\* is a power of two), the double of ScaledRounding where the value is listed
\* there, and otherwise a double within MaxSteps steps of q.  The last place
\* of a quotient that is not dyadic is not carried
Scaled(lo, hi, x) ==
    LET q == RDiv(RSub(x, lo), RSub(hi, lo))
        listed == {t \in ScaledRounding : t[1] = lo /\ t[2] = hi /\ t[3] = x}
    IN  IF ~IsPowerOfTwo(q[2]) THEN {q}
        ELSE IF ScaledExactly(lo, hi) /\ IsPowerOfTwo(x[2]) THEN {q}
        ELSE IF listed # {} THEN {RAdd(q, RMul(RInt(t[4]), Ulp)) : t \in listed}
        ELSE {RAdd(q, RMul(RInt(j), ScaledStep(lo, hi, q))) :
                 j \in (0 - MaxSteps)..MaxSteps}

\* MinMaxScaler().fit_transform on one column, for every value Scaled gives:
\* a range below 10 * eps counts as zero and is scaled by 1
\* (_handle_zeros_in_scale), the least value gives
\* lo * scale_ - lo * scale_ = 0, and equal values are scaled alike
MinMax(col) ==
    LET lo == CHOOSE x \in Range(col) : \A y \in Range(col) : RLe(x, y)
        hi == CHOOSE x \in Range(col) : \A y \in Range(col) : RLe(y, x)
        above == Range(col) \ {lo}
    IN  IF RLt(RSub(hi, lo), RMul(RInt(10), Ulp))
        THEN {[i \in 1..Len(col) |-> RSub(col[i], lo)]}
        ELSE {[i \in 1..Len(col) |-> IF col[i] = lo THEN RInt(0) ELSE f[col[i]]] :
                 f \in {g \in [above -> UNION {Scaled(lo, hi, x) : x \in above}] :
                           \A x \in above : g[x] \in Scaled(lo, hi, x)}}

\* the binades of the doubles the scores lie in: [p, 2p) for a power of two p
Binades == {<<2^e, 1>> : e \in 0..3} \cup {<<1, 2^e>> : e \in 1..4}

\* the double a result is rounded to (to nearest, ties to the even
\* significand), where the model carries the last place: x is dyadic, and in
\* the binade [p, 2p) two neighbouring doubles are p * Ulp apart.  A dyadic
\* value of the model without Ulp is a double already; the last place of a
\* value that is not dyadic is not carried, and it is left as it is
RoundToDouble(x) ==
    IF ~IsPowerOfTwo(x[2]) \/ ~(\E p \in Binades : RLe(p, x) /\ RLt(x, RMul(RInt(2), p)))
    THEN x
    ELSE LET p == CHOOSE b \in Binades : RLe(b, x) /\ RLt(x, RMul(RInt(2), b))
             spacing == RMul(p, Ulp)
             q == RDiv(x, spacing)
             below == q[1] \div q[2]
             twice == 2 * (q[1] % q[2])
             steps == IF twice < q[2] THEN below
                      ELSE IF twice > q[2] THEN below + 1
                      ELSE IF below % 2 = 0 THEN below ELSE below + 1
         IN  RMul(RInt(steps), spacing)

\* alpha * content_score + (1 - alpha) * collab_score
HybridScore(alpha, content_score, collab_score) ==
    RoundToDouble(RAdd(RoundToDouble(RMul(alpha, content_score)),
                       RoundToDouble(RMul(RSub(RInt(1), alpha), collab_score))))

\* 3.0 + (hybrid_score * 2.0)
DisplayScore(hybrid_score) ==
    RoundToDouble(RAdd(RInt(3), RoundToDouble(RMul(hybrid_score, RInt(2)))))

\* the left merge and fillna(0): the collab_score of every movie of
\* combined_content
CollabScore(combined_content, collab_rows, scaled) ==
    [m \in {combined_content[i].movieId : i \in 1..Len(combined_content)} |->
        IF \E j \in 1..Len(collab_rows) : collab_rows[j].movieId = m
        THEN scaled[CHOOSE j \in 1..Len(collab_rows) : collab_rows[j].movieId = m]
        ELSE RInt(0)]

\* lines 196-207 for one result of each scaler
Merge(combined_content, collab_rows, alpha, content_score, scaled) ==
    LET collab_score == CollabScore(combined_content, collab_rows, scaled)
    IN  [i \in 1..Len(combined_content) |->
            Row(combined_content[i].movieId,
                HybridScore(alpha, content_score[i],
                            collab_score[combined_content[i].movieId]),
                NaN)]

\* Blend with an outer merge: a movie of the collaborative list alone gets
\* the content_score 0
BlendOuter(combined_content, collab_rows, alpha) ==
    LET content_ids == {combined_content[i].movieId : i \in 1..Len(combined_content)}
        right_only == SelectSeq([j \in 1..Len(collab_rows) |-> j],
                                LAMBDA j : collab_rows[j].movieId \notin content_ids)
    IN  {Merge(combined_content, collab_rows, alpha, content_score, scaled)
           \o [t \in 1..Len(right_only) |->
                  Row(collab_rows[right_only[t]].movieId,
                      HybridScore(alpha, RInt(0), scaled[right_only[t]]), NaN)] :
            content_score \in MinMax(PredColumn(combined_content)),
            scaled \in MinMax(PredColumn(collab_rows))}

\* lines 183-207: the rows of hybrid_df, pred_rating holding hybrid_score,
\* for every result of the two scalers
Blend(combined_content, collab_rows, alpha) ==
    {Merge(combined_content, collab_rows, alpha, content_score, scaled) :
        content_score \in MinMax(PredColumn(combined_content)),
        scaled \in MinMax(PredColumn(collab_rows))}

\* lines 183-212: hybrid_df without the movies the user rated
HybridRows(user_id, combined_content, collab_rows, alpha) ==
    {SelectRows(hybrid_df, MovieIds \ RatedBy(user_id)) :
        hybrid_df \in Blend(combined_content, collab_rows, alpha)}

\* lines 216-221 for one result of the sort
HybridResult(sorted, top_n) ==
    LET head == HeadRows(sorted, top_n)
    IN  Frame(PopularColumns,
              [i \in 1..Len(head) |->
                  Row(head[i].movieId, DisplayScore(head[i].pred_rating), NaN)])

\* lines 165-174: combined_content for every choice of the seeds' content
\* recommendations, as [columns of the concatenation, rows after groupby]
CombinedContent(user_movie_ids, top_n) ==
    {Frame(Concat(content_recs).columns, GroupByMovie(Concat(content_recs).rows)) :
        content_recs \in ContentRecs(user_movie_ids, top_n * OverFetch)}

\* lines 165-228 for one combined_content
HybridBlend(user_id, combined_content, collab_recs, top_n, alpha) ==
    IF ~({"movieId", "similarity_score"} \subseteq combined_content.columns)
    THEN \* KeyError in groupby or agg, caught at line 226
         {WithPath(GetPopularMovies(top_n), "except")}
    ELSE IF combined_content.rows = <<>>
    THEN {WithPath(Frame(collab_recs.columns, HeadRows(collab_recs.rows, top_n)),
                   "collab_only")}
    ELSE IF collab_recs.rows = <<>>
    THEN \* MinMaxScaler on no rows raises ValueError, caught at line 226
         {WithPath(GetPopularMovies(top_n), "except")}
    ELSE \* sort_values('hybrid_score', ascending=False) is not stable
         UNION {{WithPath(HybridResult(sorted, top_n), "blend") :
                    sorted \in SortOrders(hybrid_df,
                        [i, j \in 1..Len(hybrid_df) |->
                            RLt(hybrid_df[j].pred_rating, hybrid_df[i].pred_rating)])} :
                  hybrid_df \in HybridRows(user_id, combined_content.rows,
                                           collab_recs.rows, alpha)}

\* HybridFrom with the empty seed list answered as the module-level
\* hybrid_recommend answers it, by get_popular_movies
HybridFromPopular(user_id, user_movie_ids, combined, top_n, alpha) ==
    IF user_movie_ids = <<>>
    THEN {WithPath(GetPopularMovies(top_n), "delegated")}
    ELSE LET collab_recs == CollaborativeRecommend(user_id, top_n * OverFetch)
         IN  UNION {HybridBlend(user_id, combined_content, collab_recs, top_n, alpha) :
                       combined_content \in combined}

\* lines 154-228 given the combined_content of every choice
HybridFrom(user_id, user_movie_ids, combined, top_n, alpha) ==
    IF user_movie_ids = <<>>
    THEN {WithPath(CollaborativeRecommend(user_id, top_n), "delegated")}
    ELSE LET collab_recs == CollaborativeRecommend(user_id, top_n * OverFetch)
         IN  UNION {HybridBlend(user_id, combined_content, collab_recs, top_n, alpha) :
                       combined_content \in combined}

\* every DataFrame hybrid_recommend(user_id, user_movie_ids, top_n, alpha)
\* may return
HybridRecommend(user_id, user_movie_ids, top_n, alpha) ==
    HybridFrom(user_id, user_movie_ids, CombinedContent(user_movie_ids, top_n),
               top_n, alpha)

(***************************************************************************)
(* MovieRecommender(): __init__, load_models, load_and_preprocess_data.    *)
(***************************************************************************)
\* load_movies: the rows of the raw table under the labels 0, 1, ...
ReadMovies(raw) ==
    [p \in 1..Len(raw) |->
        [index |-> p - 1, movieId |-> raw[p].movieId, text |-> raw[p].text]]

\* load_movies, then line 68: the rows with text, under their raw labels
LoadMovies(raw) ==
    LET kept == SelectSeq(ReadMovies(raw), LAMBDA r : r.text)
    IN  [i \in 1..Len(kept) |-> [index |-> kept[i].index, movieId |-> kept[i].movieId]]

\* self.movies_df between line 52 and line 68: every row of the raw table
UnfilteredMovies(raw) ==
    [p \in 1..Len(raw) |-> [index |-> p - 1, movieId |-> raw[p].movieId]]

\* the raw movies tables: the ids of the rows 1..n in order, some rows
\* without text
RawTables ==
    UNION {{[p \in 1..n |-> [movieId |-> MovieIdAt(p), text |-> p \notin blank]] :
               blank \in {b \in SUBSET (1..n) :
                            Cardinality(b) <= MaxBlank /\ Cardinality(b) < n}} :
           n \in 1..MaxMovies}

\* the crowd users who rated movie m: all of them, or, in a graded table,
\* fewer for a lower id (MinRatingCount of them for the third id from the top)
CrowdOf(m, graded) ==
    IF graded
    THEN {u \in CrowdUsers :
             u <= 100 + CrowdSize - MaxMovies
                      + Cardinality({x \in MovieIds : x <= m})}
    ELSE CrowdUsers

\* the ratings tables: user UserId rated the movies of rated, and each movie
\* of crowd was rated by its crowd users
Ratings(rated, crowd, graded) ==
    {[userId |-> UserId, movieId |-> m, rating |-> UserRating] : m \in rated}
    \cup UNION {{[userId |-> u, movieId |-> m, rating |-> CrowdRating] :
                    u \in CrowdOf(m, graded)} : m \in crowd}

InitialResult == [columns |-> {}, rows |-> <<>>, path |-> "none"]

NoArgs == [user_id |-> 0, movie_id |-> 0, user_movie_ids |-> <<>>, k |-> 0,
           alpha |-> <<0, 1>>]

AllModels == {"svd_model", "tfidf_model"}

\* __init__, lines 21-25: every field is None
Init ==
    /\ movies_df = <<>>
    /\ tfidf_matrix = <<>>
    /\ ratings_df = {}
    /\ svd_est = [m \in MovieIds |-> 3]
    /\ svd_raises = {}
    /\ models = {}
    /\ phase = "load_models"
    /\ op = "none"
    /\ args = NoArgs
    /\ result = InitialResult
    /\ stack = <<>>

\* LoadModels with the exception printed and not raised again
LoadModelsSwallowed ==
    /\ phase = "load_models"
    /\ \E loaded \in {{}, {"svd_model"}, AllModels} :
         /\ models' = loaded
         /\ phase' = "load_data"
    /\ UNCHANGED <<store, op, args, result, stack>>

\* load_models: the SVD model, then the TF-IDF model; a failure of either
\* is printed and raised again, and __init__ ends with it
LoadModels ==
    /\ phase = "load_models"
    /\ \E loaded \in {{}, {"svd_model"}, AllModels} :
         /\ models' = loaded
         /\ phase' = IF loaded = AllModels THEN "load_data" ELSE "failed"
    /\ UNCHANGED <<store, op, args, result, stack>>

\* the ratings tables load_ratings may return for a raw movies table
RatingsTables(raw) ==
    LET kept == {raw[p].movieId : p \in {q \in 1..Len(raw) : raw[q].text}}
        all == {raw[p].movieId : p \in 1..Len(raw)}
    IN  {Ratings(rated, table[1], table[2]) :
            rated \in SUBSET kept,
            table \in {<<{}, FALSE>>, <<kept, FALSE>>, <<all, FALSE>>, <<kept, TRUE>>}}

\* load_and_preprocess_data: the tables are read and the TF-IDF matrix is
\* built, or an exception is raised again and __init__ ends with it, the
\* fields assigned before the raise keeping what they were given.
\* svd_est and svd_raises tell what the loaded SVD model answers about the
\* movies of these tables.
LoadDataFrom(vectors, ests) ==
    /\ phase = "load_data"
    /\ \/ \* load_movies raises at line 52
          /\ phase' = "failed"
          /\ UNCHANGED store
       \/ \* load_ratings raises at line 53
          /\ phase' = "failed"
          /\ \E raw \in RawTables : movies_df' = UnfilteredMovies(raw)
          /\ UNCHANGED <<tfidf_matrix, ratings_df, svd_est, svd_raises>>
       \/ \* one of the lines 56-68 raises
          /\ phase' = "failed"
          /\ \E raw \in RawTables :
                 /\ movies_df' = UnfilteredMovies(raw)
                 /\ ratings_df' \in RatingsTables(raw)
          /\ UNCHANGED <<tfidf_matrix, svd_est, svd_raises>>
       \/ \* transform raises at line 71
          /\ phase' = "failed"
          /\ \E raw \in RawTables :
                 /\ movies_df' = LoadMovies(raw)
                 /\ ratings_df' \in RatingsTables(raw)
          /\ UNCHANGED <<tfidf_matrix, svd_est, svd_raises>>
       \/ /\ phase' = "ready"
          /\ \E raw \in RawTables :
               LET kept == {raw[p].movieId : p \in {q \in 1..Len(raw) : raw[q].text}}
                   all == {raw[p].movieId : p \in 1..Len(raw)}
               IN  /\ movies_df' = LoadMovies(raw)
                   /\ tfidf_matrix' \in [1..Len(LoadMovies(raw)) -> vectors]
                   /\ \E rated \in SUBSET kept,
                         table \in {<<{}, FALSE>>, <<kept, FALSE>>,
                                    <<all, FALSE>>, <<kept, TRUE>>} :
                        /\ ratings_df' = Ratings(rated, table[1], table[2])
                        \* predict is called for the unrated movies of the
                        \* store only
                        /\ svd_est' \in {e \in [MovieIds -> ests] :
                                           \A m \in MovieIds :
                                               m \notin (kept \ rated) => e[m] = 3}
                        /\ svd_raises' \in {{}, kept \ rated}
                        /\ (svd_raises' # {} \/ table[2])
                              => \A m \in MovieIds : svd_est'[m] = 3
    /\ UNCHANGED <<models, op, args, result, stack>>

LoadData == LoadDataFrom(Vectors, EstValues)

(***************************************************************************)
(* The operations.                                                         *)
(***************************************************************************)
CallContent ==
    \E movie_id \in MovieIds, k \in KValues :
        /\ phase = "ready"
        /\ op = "none"
        /\ op' = "content_recommend"
        /\ args' = [NoArgs EXCEPT !.movie_id = movie_id, !.k = k]
        /\ result' \in ContentRecommend(movie_id, k)
        /\ UNCHANGED <<store, models, phase, stack>>

CallCollaborative ==
    \E k \in KValues :
        /\ phase = "ready"
        /\ op = "none"
        /\ op' = "collaborative_recommend"
        /\ args' = [NoArgs EXCEPT !.user_id = UserId, !.k = k]
        /\ result' = CollaborativeRecommend(UserId, k)
        /\ UNCHANGED <<store, models, phase, stack>>

SeedLists == UNION {[1..n -> MovieIds] : n \in 0..MaxSeeds}

CallHybridWith(alphas) ==
    \E user_movie_ids \in SeedLists, top_n \in KValues :
        LET combined == CombinedContent(user_movie_ids, top_n)
        IN  \E alpha \in alphas :
                /\ phase = "ready"
                /\ op = "none"
                /\ op' = "hybrid_recommend"
                /\ args' = [NoArgs EXCEPT !.user_id = UserId,
                                !.user_movie_ids = user_movie_ids, !.k = top_n,
                                !.alpha = Rat(alpha[1], alpha[2])]
                /\ result' \in HybridFrom(UserId, user_movie_ids, combined, top_n,
                                          Rat(alpha[1], alpha[2]))
                /\ UNCHANGED <<store, models, phase, stack>>

CallHybrid == CallHybridWith(AlphaValues)

CallPopular ==
    \E top_n \in KValues :
        /\ phase = "ready"
        /\ op = "none"
        /\ op' = "get_popular_movies"
        /\ args' = [NoArgs EXCEPT !.k = top_n]
        /\ result' = WithPath(GetPopularMovies(top_n), "popular")
        /\ UNCHANGED <<store, models, phase, stack>>

\* the caller takes the result; the store is as it was
Return ==
    /\ op # "none"
    /\ stack = <<>>
    /\ op' = "none"
    /\ args' = NoArgs
    /\ result' = InitialResult
    /\ UNCHANGED <<store, models, phase, stack>>

Next ==
    \/ LoadModels \/ LoadData
    \/ CallContent \/ CallCollaborative \/ CallHybrid \/ CallPopular \/ Return

Spec == Init /\ [][Next]_vars

\* hybrid_recommend alone, with one estimate and one alpha: the content lists
\* of the seeds and their grouping (lines 159-176) read the movies, the
\* TF-IDF rows and the ratings, never the SVD model or alpha
LoadDataOneEstimate == LoadDataFrom(Vectors, {3})

CallHybridEven == CallHybridWith({<<1, AlphaDen>>})

NextSeeds == LoadModels \/ LoadDataOneEstimate \/ CallHybridEven \/ Return

SpecSeeds == Init /\ [][NextSeeds]_vars

\* hybrid_recommend alone, with one more estimate and no text of stop words
\* only: three unrated movies can have three different predictions, so that
\* the scaled collaborative score of the middle one is strictly between 0
\* and 1
LoadDataThreeEstimates ==
    LoadDataFrom(Vectors \ {<<0, 0>>}, EstValues \cup {3 + MaxEst})

NextBlend == LoadModels \/ LoadDataThreeEstimates \/ CallHybrid \/ Return

SpecBlend == Init /\ [][NextBlend]_vars

(***************************************************************************)
(* The calls one by one.  A request is followed through the calls the      *)
(* operations make of each other: stack holds one activation per call in   *)
(* progress, and each step is a call, a return, or the move to an except   *)
(* handler.  Which way a call goes is read from the store as above.        *)
(***************************************************************************)
Activation(fn, a) == [fn |-> fn, pc |-> "start", i |-> 1, a |-> a]

Top == stack[Len(stack)]

\* the tables with one text for every movie and one estimate: which calls an
\* operation makes does not depend on the scores
LoadDataPlain == LoadDataFrom({<<TfidfUnit, 0>>}, {3})

\* the requests of app.py, lines 892-911, and get_popular_movies
Requests ==
    {Activation("content_recommend", [NoArgs EXCEPT !.movie_id = m, !.k = k]) :
        m \in MovieIds, k \in KValues}
    \cup {Activation("collaborative_recommend",
                     [NoArgs EXCEPT !.user_id = UserId, !.k = k]) : k \in KValues}
    \cup {Activation("hybrid_recommend",
                     [NoArgs EXCEPT !.user_id = UserId, !.user_movie_ids = seeds,
                                    !.k = k, !.alpha = Rat(1, AlphaDen)]) :
             seeds \in SeedLists, k \in KValues}
    \cup {Activation("get_popular_movies", [NoArgs EXCEPT !.k = k]) : k \in KValues}

Enter ==
    /\ phase = "ready"
    /\ op = "none"
    /\ stack = <<>>
    /\ \E request \in Requests :
         /\ op' = request.fn
         /\ args' = request.a
         /\ stack' = <<request>>
    /\ UNCHANGED <<store, models, phase, result>>

\* the call in progress makes a call and goes on at pc when it returns
Invoke(pc, callee) ==
    /\ stack' = [stack EXCEPT ![Len(stack)].pc = pc] \o <<callee>>
    /\ UNCHANGED <<store, models, phase, op, args, result>>

\* the call in progress returns: to its caller, or the request is answered
Finish ==
    /\ stack' = SubSeq(stack, 1, Len(stack) - 1)
    /\ UNCHANGED <<store, models, phase, op, args, result>>

PopularCall(k) == Activation("get_popular_movies", [NoArgs EXCEPT !.k = k])

\* line 84 finds no row for movie_id, or line 90 raises IndexError
ContentFallsBack(movie_id) ==
    LET found == {i \in 1..Len(movies_df) : movies_df[i].movieId = movie_id}
    IN  \/ found = {}
        \/ \E i \in found : /\ \A j \in found : i <= j
                             /\ movies_df[i].index >= Len(tfidf_matrix)

\* content_recommend, lines 79-110
ContentStep ==
    /\ stack # <<>>
    /\ Top.fn = "content_recommend"
    /\ IF Top.pc = "start" /\ ContentFallsBack(Top.a.movie_id)
       THEN \* return self.get_popular_movies(k), lines 85 and 110
            Invoke("return", PopularCall(Top.a.k))
       ELSE Finish

\* top_predictions is empty: no prediction was made for one of the first
\* CandidateCap unrated movies, or predictions[:k] keeps none
NoTopPredictions(user_id, k) ==
    LET unrated_movies == StoreIds \ RatedBy(user_id)
        tried == Range(PySlice(SetOrder(unrated_movies), 0, CandidateCap))
        predictions == tried \ svd_raises
    IN  PySlice([i \in 1..Cardinality(predictions) |-> i], 0, k) = <<>>

\* collaborative_recommend, lines 112-145
CollaborativeStep ==
    /\ stack # <<>>
    /\ Top.fn = "collaborative_recommend"
    /\ IF Top.pc = "start" /\ NoTopPredictions(Top.a.user_id, Top.a.k)
       THEN \* line 139 raises KeyError; return self.get_popular_movies(k),
            \* line 145
            Invoke("return", PopularCall(Top.a.k))
       ELSE Finish

\* content_recommend(movie_id, k) returns a DataFrame without the column
\* similarity_score: what get_popular_movies returned, or no row at all
NoSimilarRows(movie_id, k) ==
    \/ ContentFallsBack(movie_id)
    \/ PySlice([i \in 1..Len(tfidf_matrix) |-> i], 1, k + 1) = <<>>

\* the groupby and agg at lines 169-174 raise KeyError
GroupByRaises(a) ==
    \A i \in 1..Len(a.user_movie_ids) :
        NoSimilarRows(a.user_movie_ids[i], a.k * OverFetch)

\* get_popular_movies(top_n) returns no row
NoPopularRows(top_n) ==
    LET popular == {m \in StoreIds : RatingCount(m) > MinRatingCount}
    IN  PySlice([i \in 1..Cardinality(popular) |-> i], 0, top_n) = <<>>

\* collab_recs has no row: MinMaxScaler raises ValueError at line 192
ScalerRaises(a) ==
    /\ NoTopPredictions(a.user_id, a.k * OverFetch)
    /\ NoPopularRows(a.k * OverFetch)

\* hybrid_recommend, lines 147-228
HybridStep ==
    /\ stack # <<>>
    /\ Top.fn = "hybrid_recommend"
    /\ LET a == Top.a
           collab(k) == Activation("collaborative_recommend",
                                   [NoArgs EXCEPT !.user_id = a.user_id, !.k = k])
       IN  IF Top.pc = "start"
           THEN IF a.user_movie_ids = <<>>
                THEN \* line 157
                     Invoke("return", collab(a.k))
                ELSE IF Top.i <= Len(a.user_movie_ids)
                THEN \* lines 161-163, one seed
                     /\ stack' = [stack EXCEPT ![Len(stack)].i = Top.i + 1]
                                    \o <<Activation("content_recommend",
                                            [NoArgs EXCEPT
                                                !.movie_id = a.user_movie_ids[Top.i],
                                                !.k = a.k * OverFetch])>>
                     /\ UNCHANGED <<store, models, phase, op, args, result>>
                ELSE IF GroupByRaises(a)
                THEN \* line 228
                     Invoke("return", PopularCall(a.k))
                ELSE \* line 179
                     Invoke("blend", collab(a.k * OverFetch))
           ELSE IF Top.pc = "blend" /\ ScalerRaises(a)
           THEN \* line 228
                Invoke("return", PopularCall(a.k))
           ELSE Finish

\* PopularStep with the handler at lines 255-260 calling hybrid_recommend
PopularStepRecursive ==
    /\ stack # <<>>
    /\ Top.fn = "get_popular_movies"
    /\ IF Top.pc = "start"
       THEN Invoke("return",
                   Activation("hybrid_recommend",
                              [NoArgs EXCEPT !.user_id = UserId, !.k = Top.a.k]))
       ELSE Finish

\* get_popular_movies, lines 230-260: it calls no operation
PopularStep ==
    /\ stack # <<>>
    /\ Top.fn = "get_popular_movies"
    /\ Finish

Step == ContentStep \/ CollaborativeStep \/ HybridStep \/ PopularStep

NextCalls ==
    \/ LoadModels \/ LoadDataPlain
    \/ Enter \/ ContentStep \/ CollaborativeStep \/ HybridStep \/ PopularStep
    \/ Return

\* a call in progress goes on: the interpreter runs it to its return
SpecCalls == Init /\ [][NextCalls]_vars /\ WF_vars(Step)

(***************************************************************************)
(* The claims.                                                             *)
(***************************************************************************)
IsCall(name) == op = name

\* C1: no item collaborative_recommend(user_id, k) returns was rated by
\* user_id, on every return path (the get_popular_movies path included).
C1_CollaborativeNeverRated ==
    IsCall("collaborative_recommend")
        => Range(Ids(result)) \cap RatedBy(args.user_id) = {}

\* C2: no item hybrid_recommend returns was rated by the user, on the
\* empty-seed path, the blend path, the path without content candidates and
\* the exception path.
C2_HybridNeverRated ==
    IsCall("hybrid_recommend")
        => Range(Ids(result)) \cap RatedBy(args.user_id) = {}

\* C3: for an item_id of the store and k >= 1, content_recommend(item_id, k)
\* never contains item_id.
C3_ContentExcludesItself ==
    (IsCall("content_recommend") /\ args.movie_id \in StoreIds /\ args.k >= 1)
        => args.movie_id \notin Range(Ids(result))

\* every content-derived candidate of the call (none at all included) was
\* rated by the user
CandidatesAllRated ==
    \A combined_content \in CombinedContent(args.user_movie_ids, args.k) :
        \A i \in 1..Len(combined_content.rows) :
            combined_content.rows[i].movieId \in RatedBy(args.user_id)

\* C4: hybrid_recommend with a non-empty seed list returns the list of
\* get_popular_movies(top_n) whenever no content-derived candidate is left
\* (there is none, or the user rated every one of them).
C4_EmptyCandidatesGivePopular ==
    (IsCall("hybrid_recommend") /\ args.user_movie_ids # <<>> /\ CandidatesAllRated)
        => result.rows = GetPopularMovies(args.k).rows

\* C8: with a ratings table that has no rows, collaborative_recommend(user_id,
\* k) returns the list of get_popular_movies(k).
C8_NoRatingsCollaborativeIsPopular ==
    (IsCall("collaborative_recommend") /\ ratings_df = {})
        => Ids(result) = Ids(GetPopularMovies(args.k))

\* C9: with a ratings table that has no rows and a non-empty store,
\* get_popular_movies(top_n) returns the first min(top_n, item count) items
\* of the store in store order, each with the score 4.0.
C9_NoRatingsPopularIsStoreHead ==
    (IsCall("get_popular_movies") /\ ratings_df = {} /\ Len(movies_df) > 0)
        => /\ Ids(result) = [i \in 1..Min2(args.k, Len(movies_df)) |->
                                movies_df[i].movieId]
           /\ \A i \in 1..Len(result.rows) : result.rows[i].pred_rating = RInt(4)

\* the one seed of a single-seed call
Seed == args.user_movie_ids[1]

SingleSeedAlphaOne ==
    /\ IsCall("hybrid_recommend")
    /\ Len(args.user_movie_ids) = 1
    /\ Seed \in StoreIds
    /\ args.alpha = RInt(1)

\* C5 as stated: hybrid_recommend(user, [seed], k, alpha=1.0), seed in the
\* store, returns the movies of content_recommend(seed, k) in the same order.
C5_AlphaOneIsContent ==
    SingleSeedAlphaOne
        => \A c \in ContentRecommend(Seed, args.k) : Ids(result) = Ids(c)

SeedsAlphaZero ==
    /\ IsCall("hybrid_recommend")
    /\ args.user_movie_ids # <<>>
    /\ args.alpha = RInt(0)

\* C6 as stated: hybrid_recommend(user, seeds, k, alpha=0.0), seeds not
\* empty, returns the movies of collaborative_recommend(user, k) in the same
\* order.
C6_AlphaZeroIsCollaborative ==
    SeedsAlphaZero
        => Ids(result) = Ids(CollaborativeRecommend(args.user_id, args.k))

\* C7: hybrid_recommend(user_id, [], k, alpha) returns the result of
\* collaborative_recommend(user_id, k), whatever alpha is.
C7_EmptySeedsIsCollaborative ==
    (IsCall("hybrid_recommend") /\ args.user_movie_ids = <<>>)
        => LET collab == CollaborativeRecommend(args.user_id, args.k)
           IN  result.columns = collab.columns /\ result.rows = collab.rows

\* an empty-seed call with alpha = 1/2 that returned two predicted movies
\* while get_popular_movies has another answer
C7_Witness ==
    /\ IsCall("hybrid_recommend") /\ args.user_movie_ids = <<>>
    /\ args.alpha = Rat(1, 2)
    /\ Len(result.rows) = 2
    /\ result.rows # GetPopularMovies(args.k).rows

NoDuplicates(ids) == \A i, j \in 1..Len(ids) : i # j => ids[i] # ids[j]

\* C10: the list each of content_recommend, collaborative_recommend,
\* hybrid_recommend and get_popular_movies returns has at most one entry per
\* movie id.
C10_NoDuplicateIds == ~IsCall("none") => NoDuplicates(Ids(result))

\* a blend of two movies for a seed list that repeats its seed
C10_Witness ==
    /\ IsCall("hybrid_recommend")
    /\ Len(args.user_movie_ids) = 2
    /\ args.user_movie_ids[1] = args.user_movie_ids[2]
    /\ result.path = "blend"
    /\ Len(result.rows) = 2

\* C11: every movie id returned by content_recommend, collaborative_recommend,
\* hybrid_recommend or get_popular_movies is the id of a movie of the store,
\* also when the ratings table names movies the store does not hold.
C11_ReturnedIdsInStore ==
    ~IsCall("none") => Range(Ids(result)) \subseteq StoreIds

\* get_popular_movies returns movies while a movie outside the store has
\* more than MinRatingCount ratings
C11_Witness ==
    /\ IsCall("get_popular_movies")
    /\ result.rows # <<>>
    /\ \E r \in ratings_df :
         r.movieId \notin StoreIds /\ RatingCount(r.movieId) > MinRatingCount

IsRecommendCall ==
    IsCall("content_recommend") \/ IsCall("collaborative_recommend")
        \/ IsCall("hybrid_recommend")

\* a DataFrame came back: a list of recommendations or a fallback
ReturnedFrame ==
    result.path \in {"unknown", "except", "similar", "predicted", "collab_only",
                     "blend", "delegated", "popular"}

\* C13 as stated: a recommend call with k <= 0, or with alpha outside [0, 1],
\* is rejected with a validation failure: it returns neither a list of
\* recommendations nor a fallback result.
C13_OutOfRangeRejected ==
    (IsRecommendCall
        /\ (args.k <= 0 \/ RLt(args.alpha, RInt(0)) \/ RLt(RInt(1), args.alpha)))
        => ~ReturnedFrame

\* C14: no request is served unless both the SVD model and the TF-IDF model
\* were loaded: when loading either fails the construction fails, and there
\* is no instance to call.
C14_ServedOnlyWithModels ==
    /\ ~IsCall("none") => phase = "ready"
    /\ phase = "ready" => models = AllModels
    /\ models # AllModels => phase \in {"load_models", "failed"}

\* the SVD model loaded, the TF-IDF model did not: the construction failed
C14_Witness ==
    phase = "failed" /\ models = {"svd_model"} /\ IsCall("none")

\* the place of a movie of the store among the rows of tfidf_matrix
PositionOf(movie_id) ==
    CHOOSE i \in 1..Len(movies_df) : movies_df[i].movieId = movie_id

\* the cosine similarity of two movies of the store
Similarity(a, b) ==
    Rat(Dot(tfidf_matrix[PositionOf(a)], tfidf_matrix[PositionOf(b)]),
        TfidfUnit * TfidfUnit)

\* C15 as stated: content_recommend(item, k) for an item of a store of n
\* items, k >= 1, returns exactly min(k, n - 1) items, all of them other
\* than the query item, in order of descending similarity to it, and no item
\* left out is more similar than one returned.
C15_ContentTopKOthers ==
    (IsCall("content_recommend") /\ args.movie_id \in StoreIds /\ args.k >= 1)
        => LET ids == Ids(result)
               sim(m) == Similarity(args.movie_id, m)
           IN  /\ Len(ids) = Min2(args.k, Len(movies_df) - 1)
               /\ Range(ids) \subseteq StoreIds \ {args.movie_id}
               /\ \A i, j \in 1..Len(ids) : i < j => RLe(sim(ids[j]), sim(ids[i]))
               /\ \A m \in StoreIds \ ({args.movie_id} \cup Range(ids)) :
                      \A i \in 1..Len(ids) : RLe(sim(m), sim(ids[i]))

\* the movies of the store the user has not rated
Unrated == StoreIds \ RatedBy(args.user_id)

\* C16 as stated: when the user has at most CandidateCap unrated movies and
\* their predictions are pairwise distinct, collaborative_recommend(user, k)
\* returns exactly min(k, number of unrated movies) movies, all unrated, in
\* order of descending predicted rating, and no unrated movie left out has a
\* higher prediction than one returned.
C16_CollaborativeTopK ==
    (/\ IsCall("collaborative_recommend")
     /\ args.k >= 1
     /\ svd_raises = {}
     /\ Cardinality(Unrated) <= CandidateCap
     /\ \A m, n \in Unrated : m # n => svd_est[m] # svd_est[n])
        => LET ids == Ids(result)
           IN  /\ Len(ids) = Min2(args.k, Cardinality(Unrated))
               /\ Range(ids) \subseteq Unrated
               /\ \A i, j \in 1..Len(ids) : i < j => svd_est[ids[j]] < svd_est[ids[i]]
               /\ \A m \in Unrated \ Range(ids) :
                      \A i \in 1..Len(ids) : svd_est[m] < svd_est[ids[i]]

\* no prediction is left: the user rated every movie of the store, or every
\* prediction for an unrated movie fails
NoPrediction == Unrated \subseteq svd_raises

\* C18: collaborative_recommend(user, k) with no candidate, or with every
\* prediction failing, returns what get_popular_movies(k) returns: it does
\* not raise, and it is not empty while popular movies exist.
C18_NoPredictionGivesPopular ==
    (IsCall("collaborative_recommend") /\ NoPrediction)
        => /\ result.columns = PopularColumns
           /\ result.rows = GetPopularMovies(args.k).rows
           /\ (PopularMovies # <<>> /\ GetPopularMovies(1).rows # <<>> /\ args.k >= 1)
                  => result.rows # <<>>

\* every prediction for the unrated movies failed and the popular movies
\* came back
C18_Witness ==
    /\ IsCall("collaborative_recommend")
    /\ Unrated # {}
    /\ NoPrediction
    /\ result.rows # <<>>

\* C20: when ratings exist, get_popular_movies(top_n) returns only movies of
\* the store with more than MinRatingCount ratings, at most top_n of them,
\* ordered by mean rating descending and then by number of ratings
\* descending, each with its mean rating as pred_rating.
C20_PopularByMeanThenCount ==
    (IsCall("get_popular_movies") /\ ratings_df # {})
        => LET ids == Ids(result)
               mean(m) == Rat(RatingSum(m), RatingCount(m))
           IN  /\ Range(ids) \subseteq StoreIds
               /\ \A i \in 1..Len(ids) :
                      /\ RatingCount(ids[i]) > MinRatingCount
                      /\ result.rows[i].pred_rating = mean(ids[i])
               /\ Len(ids) <= args.k
               /\ \A i, j \in 1..Len(ids) : i < j =>
                      \/ RLt(mean(ids[j]), mean(ids[i]))
                      \/ /\ mean(ids[j]) = mean(ids[i])
                         /\ RatingCount(ids[j]) <= RatingCount(ids[i])

\* two popular movies with the same mean rating came back, the one with
\* more ratings first, and a movie of the store with exactly MinRatingCount
\* ratings did not
C20_Witness ==
    /\ IsCall("get_popular_movies")
    /\ Len(result.rows) = 2
    /\ result.rows[1].pred_rating = result.rows[2].pred_rating
    /\ RatingCount(result.rows[1].movieId) > RatingCount(result.rows[2].movieId)
    /\ \E m \in StoreIds \ Range(Ids(result)) : RatingCount(m) = MinRatingCount

\* the fallbacks the calls in progress take are those the results of the
\* operations tell of
FallbacksAsReturned ==
    stack # <<>> =>
        LET a == Top.a
        IN  /\ Top.fn = "content_recommend" =>
                 (ContentFallsBack(a.movie_id)
                     <=> \A c \in ContentRecommend(a.movie_id, a.k) :
                             c.path \in {"unknown", "except"})
            /\ Top.fn = "collaborative_recommend" =>
                 (NoTopPredictions(a.user_id, a.k)
                     <=> CollaborativeRecommend(a.user_id, a.k).path = "except")
            /\ (Top.fn = "hybrid_recommend" /\ a.user_movie_ids # <<>>) =>
                 ((GroupByRaises(a) \/ ScalerRaises(a))
                     <=> \A r \in HybridRecommend(a.user_id, a.user_movie_ids,
                                                  a.k, a.alpha) :
                             r.path = "except")

\* C19: every call of content_recommend, collaborative_recommend or
\* hybrid_recommend returns after a chain of at most three calls in progress,
\* in which get_popular_movies is always the innermost: it calls no
\* operation, so that no chain of fallbacks comes back to its start.
C19_CallsTerminate ==
    /\ [](Len(stack) <= 3)
    /\ [](\A i \in 1..Len(stack) :
             stack[i].fn = "get_popular_movies" => i = Len(stack))
    /\ []FallbacksAsReturned
    /\ (stack # <<>>) ~> (stack = <<>>)

\* hybrid_recommend waits for collaborative_recommend, which waits for
\* get_popular_movies
C19_Witness ==
    /\ Len(stack) = 3
    /\ stack[1].fn = "hybrid_recommend"
    /\ stack[2].fn = "collaborative_recommend"
    /\ stack[3].fn = "get_popular_movies"

\* rows with equal scores are in ascending order of movie id
TiesAscending(rows) ==
    \A i, j \in 1..Len(rows) :
        (i < j /\ rows[i].pred_rating = rows[j].pred_rating)
            => rows[i].movieId < rows[j].movieId

\* the candidates collaborative_recommend predicts a rating for
Predicted == Unrated \ svd_raises

\* the equally rated candidates that made the cut have the lower ids
CollabCutAscending ==
    \A m \in Predicted \ Range(Ids(result)) :
        \A i \in 1..Len(result.rows) :
            svd_est[m] = svd_est[result.rows[i].movieId]
                => result.rows[i].movieId < m

\* hybrid_df of the call, for every choice of the seeds' content lists
HybridCandidates ==
    UNION {HybridRows(args.user_id, combined_content.rows,
                CollaborativeRecommend(args.user_id, args.k * OverFetch).rows,
                args.alpha) :
        combined_content \in
            {c \in CombinedContent(args.user_movie_ids, args.k) :
                 /\ {"movieId", "similarity_score"} \subseteq c.columns
                 /\ c.rows # <<>>}}

\* the rows returned are the head of hybrid_df, and the equally scored
\* candidates that made the cut have the lower ids
HybridCutAscending ==
    \E hybrid_df \in HybridCandidates :
        /\ Range(Ids(result)) \subseteq {hybrid_df[i].movieId : i \in 1..Len(hybrid_df)}
        /\ \A i, j \in 1..Len(hybrid_df) :
               (/\ hybrid_df[i].movieId \in Range(Ids(result))
                /\ hybrid_df[j].movieId \notin Range(Ids(result))
                /\ hybrid_df[i].pred_rating = hybrid_df[j].pred_rating)
                   => hybrid_df[i].movieId < hybrid_df[j].movieId

\* C21 as stated: in collaborative_recommend, candidates with equal predicted
\* rating appear in ascending order of movie id, and in hybrid_recommend,
\* candidates with equal hybrid_score appear in ascending order of movie id,
\* both in the ranking and in the choice of the tied items that make the
\* top-k cut.
C21_TiesInAscendingIdOrder ==
    /\ (IsCall("collaborative_recommend") /\ result.path = "predicted")
           => (TiesAscending(result.rows) /\ CollabCutAscending)
    /\ (IsCall("hybrid_recommend") /\ result.path = "blend")
           => (TiesAscending(result.rows) /\ HybridCutAscending)

\* the rows content_recommend returned for movies other than the query movie
Neighbours == SelectSeq(result.rows, LAMBDA r : r.movieId # args.movie_id)

\* rows with equal similarity are in the order of the store
TiesInStoreOrder(rows) ==
    \A i, j \in 1..Len(rows) :
        (i < j /\ rows[i].similarity_score = rows[j].similarity_score)
            => PositionOf(rows[i].movieId) < PositionOf(rows[j].movieId)

\* the equally similar movies that made the cut are the earlier ones of the
\* store
ContentCutInStoreOrder ==
    \A m \in StoreIds \ (Range(Ids(result)) \cup {args.movie_id}) :
        \A i \in 1..Len(Neighbours) :
            Similarity(args.movie_id, m)
                    = Similarity(args.movie_id, Neighbours[i].movieId)
                => PositionOf(Neighbours[i].movieId) < PositionOf(m)

\* C22 as stated: in content_recommend, movies with equal similarity to the
\* query movie appear in the order of the store (the sort is stable), both in
\* the ranking and in the choice of the tied movies that make the top-k cut.
C22_TiesInStoreOrder ==
    (IsCall("content_recommend") /\ result.path = "similar")
        => (TiesInStoreOrder(Neighbours) /\ ContentCutInStoreOrder)

\* the content lists of the seeds of a hybrid call, one choice per element,
\* for the choices groupby accepts (a concatenation without the column
\* similarity_score raises KeyError)
SeedContentLists ==
    {content_recs \in ContentRecs(args.user_movie_ids, args.k * OverFetch) :
        {"movieId", "similarity_score"} \subseteq Concat(content_recs).columns}

\* the seeds (by position in user_movie_ids) whose content list holds movie m
SeedsListing(content_recs, m) ==
    SelectSeq([s \in 1..Len(content_recs) |-> s],
              LAMBDA s : m \in Range(Ids(content_recs[s])))

\* the predicted score of movie m in one content list
ScoreIn(content_rec, m) ==
    content_rec.rows[CHOOSE i \in 1..Len(content_rec.rows) :
                         content_rec.rows[i].movieId = m].pred_rating

\* the predicted scores of movie m under the seeds that list it
SeedScores(content_recs, m) ==
    LET seeds == SeedsListing(content_recs, m)
    IN  [t \in 1..Len(seeds) |-> ScoreIn(content_recs[seeds[t]], m)]

\* the movies of all the content lists
Listed(content_recs) ==
    UNION {Range(Ids(content_recs[s])) : s \in 1..Len(content_recs)}

\* C23: in hybrid_recommend with seeds, a movie that is in the content lists
\* of m >= 2 seeds enters the candidate set once, with a predicted score equal
\* to the arithmetic mean of its m scores, and a movie that is in the list of
\* one seed keeps that seed's score (titles and genres are not part of the
\* model).
C23_CandidatesAverageSeeds ==
    (IsCall("hybrid_recommend") /\ args.user_movie_ids # <<>>)
        => \A content_recs \in SeedContentLists :
               LET combined_content == GroupByMovie(Concat(content_recs).rows)
               IN  /\ Range(Ids(Frame({}, combined_content))) = Listed(content_recs)
                   /\ \A m \in Listed(content_recs) :
                          LET at == {i \in 1..Len(combined_content) :
                                         combined_content[i].movieId = m}
                              scores == SeedScores(content_recs, m)
                          IN  /\ Cardinality(at) = 1
                              /\ \A i \in at :
                                     /\ combined_content[i].pred_rating
                                            = RDiv(RSum(scores), RInt(Len(scores)))
                                     /\ Len(scores) = 1
                                            => combined_content[i].pred_rating = scores[1]

\* a blend of two seeds of the store: one movie is in both lists of similar
\* movies with different scores, another movie is in one list only
C23_Witness ==
    /\ IsCall("hybrid_recommend")
    /\ result.path = "blend"
    /\ Len(args.user_movie_ids) = 2
    /\ Range(args.user_movie_ids) \subseteq StoreIds
    /\ \E content_recs \in SeedContentLists :
           /\ \A s \in 1..2 : content_recs[s].path = "similar"
           /\ \E m \in Listed(content_recs) :
                  /\ Len(SeedScores(content_recs, m)) = 2
                  /\ SeedScores(content_recs, m)[1] # SeedScores(content_recs, m)[2]
           /\ \E m \in Listed(content_recs) : Len(SeedScores(content_recs, m)) = 1

\* the candidate sets of a hybrid call that reaches the blend: one per choice
\* of the seeds' content lists
BlendCandidates ==
    {c.rows : c \in {d \in CombinedContent(args.user_movie_ids, args.k) :
                         /\ {"movieId", "similarity_score"} \subseteq d.columns
                         /\ d.rows # <<>>}}

\* the collaborative list of a hybrid call
CollabList == CollaborativeRecommend(args.user_id, args.k * OverFetch).rows

\* the score of movie m in rows, scaled to 0..1 by the least and the greatest
\* score of rows (0 for a constant column)
NormIn(rows, m) ==
    LET scores == {rows[i].pred_rating : i \in 1..Len(rows)}
        x == rows[CHOOSE i \in 1..Len(rows) : rows[i].movieId = m].pred_rating
        lo == CHOOSE a \in scores : \A b \in scores : RLe(a, b)
        hi == CHOOSE a \in scores : \A b \in scores : RLe(b, a)
    IN  IF lo = hi THEN RInt(0) ELSE RDiv(RSub(x, lo), RSub(hi, lo))

\* collab_norm: 0 for a movie that is not in the collaborative list
CollabNorm(collab_rows, m) ==
    IF m \in {collab_rows[i].movieId : i \in 1..Len(collab_rows)}
    THEN NormIn(collab_rows, m) ELSE RInt(0)

\* 3 + 2 * (alpha * content_norm + (1 - alpha) * collab_norm)
BlendScore(alpha, content_norm, collab_norm) ==
    RAdd(RInt(3),
         RMul(RInt(2), RAdd(RMul(alpha, content_norm),
                            RMul(RSub(RInt(1), alpha), collab_norm))))

\* C24 as stated: every movie the blend path of hybrid_recommend returns has
\* pred_rating = 3 + 2 * (alpha * content_norm + (1 - alpha) * collab_norm),
\* the norms being the min-max norms in 0..1 and collab_norm being 0 for a
\* candidate that is not in the collaborative list, and so every returned
\* pred_rating is in [3, 5].
C24_BlendScore ==
    (IsCall("hybrid_recommend") /\ result.path = "blend")
        => LET collab_rows == CollabList
           IN  /\ \E candidates \in BlendCandidates :
                      \A i \in 1..Len(result.rows) :
                          LET m == result.rows[i].movieId
                          IN  /\ m \in {candidates[j].movieId : j \in 1..Len(candidates)}
                              /\ result.rows[i].pred_rating
                                   = BlendScore(args.alpha, NormIn(candidates, m),
                                                CollabNorm(collab_rows, m))
               /\ \A i \in 1..Len(result.rows) :
                      /\ RLe(RInt(3), result.rows[i].pred_rating)
                      /\ RLe(result.rows[i].pred_rating, RInt(5))

\* the movies of a sequence of rows
IdsOf(rows) == {rows[i].movieId : i \in 1..Len(rows)}

\* C25: on the blend path of hybrid_recommend (seeds given, no exception),
\* every movie returned is one that content_recommend(seed, 2 * top_n)
\* returned for at least one seed (a movie of the popularity fallback for a
\* seed that is not in the store), and a movie that is in the collaborative
\* list only is never returned, for any alpha.
C25_BlendWithinContentLists ==
    (IsCall("hybrid_recommend") /\ result.path = "blend")
        => \E content_recs \in SeedContentLists :
               /\ IdsOf(result.rows) \subseteq Listed(content_recs)
               /\ \A m \in IdsOf(CollabList) \ Listed(content_recs) :
                      m \notin IdsOf(result.rows)

\* a blend by the collaborative score alone (alpha = 0) that returns fewer
\* movies than asked for, while the best movie of the collaborative list is
\* in no content list of the seeds, whatever the order of the ties
C25_Witness ==
    /\ IsCall("hybrid_recommend")
    /\ result.path = "blend"
    /\ args.alpha = RInt(0)
    /\ result.rows # <<>>
    /\ Len(result.rows) < args.k
    /\ \A content_recs \in SeedContentLists :
           CollabList[1].movieId \notin Listed(content_recs)
    /\ \E i \in 1..Len(CollabList) :
           RLt(CollabList[i].pred_rating, CollabList[1].pred_rating)

\* C17 as stated: in hybrid_recommend each of the two score columns (the
\* merged content pred_rating, the collaborative pred_rating) is scaled over
\* its own rows so that, for a column that is not constant, the least scaled
\* value is exactly 0 and the greatest exactly 1, and every scaled value of a
\* constant column is 0.
C17_ScaledEndsExact ==
    (IsCall("hybrid_recommend") /\ result.path = "blend")
        => LET collab_rows == CollabList
           IN  \A candidates \in BlendCandidates :
                   \A col \in {PredColumn(candidates), PredColumn(collab_rows)} :
                       \A scaled \in MinMax(col) :
                           IF \A i, j \in 1..Len(col) : col[i] = col[j]
                           THEN Range(scaled) = {RInt(0)}
                           ELSE /\ RInt(0) \in Range(scaled)
                                /\ RInt(1) \in Range(scaled)
                                /\ \A i \in 1..Len(scaled) :
                                       RLe(RInt(0), scaled[i]) /\ RLe(scaled[i], RInt(1))

=============================================================================
